---- MODULE Spec2Model ----
(***************************************************************************)
(* DockerNode (lib/topology_docker/node.py): one node object that owns one *)
(* Docker container.  Every method is a straight-line sequence of calls    *)
(* into the docker Client (self._client) and into the node's shell         *)
(* (self(...)); an exception raised by a call leaves the method at once.   *)
(*                                                                         *)
(* The state is the node's fields, the container as the runtime sees it,   *)
(* and a record of the last method call: which method, the calls it        *)
(* issued in order (each with its outcome), what it raised and returned.   *)
(***************************************************************************)
EXTENDS Integers, Sequences, FiniteSets, TLC

\* Port identifiers, metadata labels and interface names are strings; the
\* model draws all of them from one pool of NumNames names.
NumNames == 2
Names == 1..NumNames

\* Container ids the runtime may hand out and process ids it may report:
\* values the node only stores and passes on.
Ids == {"c1", "c2"}
Pids == {"pid1", "pid2"}

\* A Python dict with no keys; None and "no value" are the empty tuple.
EmptyDict == [k \in {} |-> k]
None == <<>>

\* biport.metadata is a dict that may or may not hold the key 'label'.
Metadatas == {EmptyDict} \cup {[label |-> n] : n \in Names}
Biports == [identifier : Names, metadata : Metadatas]

VARIABLES
    constructed,    \* __init__ has returned: the node object exists
    container_id,   \* self.container_id, None before construction
    pid,            \* self._pid, None or <<p>>
    ports,          \* self.ports: port label -> interface name
    runtime,        \* the container in the runtime: [id, state, linkUp]
    op,             \* the last method called: [name, args]
    calls,          \* the calls it issued, in order: [fn, arg, ok, ret]
    raised,         \* "none", "runtime" (a call failed) or "KeyError"
    ret,            \* what it returned (None for a method returning nothing)
    mon             \* monitor of the scenario port_state(l, False); pause(); unpause()

vars == <<constructed, container_id, pid, ports, runtime, op, calls, raised, ret, mon>>

----
\* The calls a method plans to make: [fn, arg, ret], ret being what the
\* call returns when it succeeds.

Request(fn, cid) == [fn |-> fn, arg |-> cid, ret |-> None]

\* port_state builds 'ip link set dev {iface} {up|down}' and runs it in bash.
ShellCmd(iface, state) ==
    [fn |-> "shell",
     arg |-> <<"ip link set dev", iface, IF state THEN "up" ELSE "down">>,
     ret |-> None]

\* __init__ that also starts the container it created.
InitPlanStarting(newId) ==
    << [fn |-> "create_host_config", arg |-> None, ret |-> None],
       [fn |-> "create_container", arg |-> None, ret |-> <<newId>>],
       Request("start", <<newId>>) >>

\* __init__: create_host_config, then create_container(...)['Id'].
InitPlan(newId) ==
    << [fn |-> "create_host_config", arg |-> None, ret |-> None],
       [fn |-> "create_container", arg |-> None, ret |-> <<newId>>] >>

\* start: start, then inspect_container(...)['State']['Pid'].
StartPlan(cid, reportedPid) ==
    << Request("start", cid),
       [fn |-> "inspect_container", arg |-> cid, ret |-> <<reportedPid>>] >>

\* stop with the container removed before it is waited for.
StopPlanRemoveBeforeWait(cid) ==
    << Request("stop", cid), Request("remove_container", cid), Request("wait", cid) >>

\* stop: stop, wait, remove_container.
StopPlan(cid) ==
    << Request("stop", cid), Request("wait", cid), Request("remove_container", cid) >>

\* 'for portlbl in self.ports': the labels of the mapping, each once, in the
\* mapping's own order.  Names are interchangeable, so the model numbers the
\* labels in the order in which the mapping yields them.
KeyOrder(prts) == SelectSeq([i \in 1..NumNames |-> i], LAMBDA x : x \in DOMAIN prts)

\* port_state that takes the label itself for the interface name.
PortStatePlanByLabel(prts, portlbl, state) == << ShellCmd(portlbl, state) >>

\* port_state: iface = self.ports[portlbl]; one shell command.
PortStatePlan(prts, portlbl, state) == << ShellCmd(prts[portlbl], state) >>

\* The port_state calls of a loop over ports, all with the same state.
ForEachPort(prts, state) ==
    [i \in 1..Len(KeyOrder(prts)) |-> PortStatePlan(prts, KeyOrder(prts)[i], state)[1]]

\* pause that freezes the container before it downs the ports.
PausePlanPauseFirst(cid, prts) == << Request("pause", cid) >> \o ForEachPort(prts, FALSE)

\* pause: port_state(portlbl, False) for each label of ports, then pause.
PausePlan(cid, prts) == ForEachPort(prts, FALSE) \o << Request("pause", cid) >>

\* unpause that ups the ports before the container runs again.
UnpausePlanUpFirst(cid, prts) == ForEachPort(prts, TRUE) \o << Request("unpause", cid) >>

\* unpause that leaves the ports as pause left them.
UnpausePlanNoUp(cid, prts) == << Request("unpause", cid) >>

\* unpause: unpause, then port_state(portlbl, True) for each label of ports.
UnpausePlan(cid, prts) == << Request("unpause", cid) >> \o ForEachPort(prts, TRUE)

\* notify_add_biport that ignores the metadata label.
BiportNameIdentifier(biport) == biport.identifier

\* notify_add_biport: biport.metadata.get('label', biport.identifier).
BiportName(biport) ==
    IF "label" \in DOMAIN biport.metadata THEN biport.metadata.label ELSE biport.identifier

----
\* The container runtime and the container's shell.

NoContainer == [id |-> None, state |-> "none", linkUp |-> [n \in Names |-> FALSE]]

\* What the runtime requires before it can accept a call; any call may fail
\* even so (daemon unreachable, image missing, no bash in the image, ...).
Accepts(c, rt) ==
    CASE c.fn = "create_host_config" -> TRUE
      [] c.fn = "create_container" -> rt.state = "none"
      [] OTHER ->
            /\ rt.state \notin {"none", "removed"}
            /\ c.fn # "shell" => c.arg = rt.id
            /\ CASE c.fn = "start" -> rt.state \in {"created", "running", "exited"}
                 [] c.fn = "remove_container" -> rt.state \in {"created", "exited"}
                 [] c.fn = "pause" -> rt.state = "running"
                 [] c.fn = "unpause" -> rt.state = "paused"
                 [] c.fn = "shell" -> rt.state = "running"
                 [] OTHER -> TRUE

\* What an accepted call does to the container.
Effect(c, rt) ==
    CASE c.fn = "create_container" -> [rt EXCEPT !.id = c.ret, !.state = "created"]
      [] c.fn = "start" -> [rt EXCEPT !.state = "running"]
      [] c.fn = "stop" ->
            [rt EXCEPT !.state = IF @ \in {"running", "paused"} THEN "exited" ELSE @]
      [] c.fn = "remove_container" -> [rt EXCEPT !.state = "removed"]
      [] c.fn = "pause" -> [rt EXCEPT !.state = "paused"]
      [] c.fn = "unpause" -> [rt EXCEPT !.state = "running"]
      [] c.fn = "shell" -> [rt EXCEPT !.linkUp[c.arg[2]] = (c.arg[3] = "up")]
      [] OTHER -> rt

\* A method body: the planned calls are issued one after the other; the first
\* call that fails raises, and the rest of the body is not executed.  failAt
\* is the call at which the runtime fails of its own accord (0: none).
\* The result is the calls issued and the runtime they leave behind.
Issue(c, ok) == [fn |-> c.fn, arg |-> c.arg, ok |-> ok, ret |-> IF ok THEN c.ret ELSE None]

RECURSIVE Exec(_, _, _, _, _)
Exec(plan, i, rt, trace, failAt) ==
    IF i > Len(plan) THEN [rt |-> rt, trace |-> trace]
    ELSE IF i = failAt \/ ~Accepts(plan[i], rt)
         THEN [rt |-> rt, trace |-> Append(trace, Issue(plan[i], FALSE))]
         ELSE Exec(plan, i + 1, Effect(plan[i], rt), Append(trace, Issue(plan[i], TRUE)), failAt)

\* The same body with every call wrapped in a try/except that carries on.
RECURSIVE ExecKeepGoing(_, _, _, _, _)
ExecKeepGoing(plan, i, rt, trace, failAt) ==
    IF i > Len(plan) THEN [rt |-> rt, trace |-> trace]
    ELSE IF i = failAt \/ ~Accepts(plan[i], rt)
         THEN ExecKeepGoing(plan, i + 1, rt, Append(trace, Issue(plan[i], FALSE)), failAt)
         ELSE ExecKeepGoing(plan, i + 1, Effect(plan[i], rt),
                            Append(trace, Issue(plan[i], TRUE)), failAt)

RunKeepGoing(plan, rt0, failAt) == ExecKeepGoing(plan, 1, rt0, <<>>, failAt)

Run(plan, rt0, failAt) == Exec(plan, 1, rt0, <<>>, failAt)

\* A method raises what its failing call raised: nothing is caught.
Failed(trace) == trace # <<>> /\ ~trace[Len(trace)].ok
Raised(trace) == IF Failed(trace) THEN "runtime" ELSE "none"

----
Init ==
    /\ constructed = FALSE
    /\ container_id = None
    /\ pid = None
    /\ ports = EmptyDict
    /\ runtime = NoContainer
    /\ op = [name |-> "none", args |-> <<>>]
    /\ calls = <<>>
    /\ raised = "none"
    /\ ret = None
    /\ mon = <<>>

\* DockerNode.__init__ (through a concrete subclass).  When it raises there
\* is no node object, and construction may be tried again.
Construct ==
    /\ ~constructed
    /\ \E newId \in Ids, failAt \in 0..2 :
         LET r == Run(InitPlan(newId), runtime, failAt) IN
         /\ runtime' = r.rt
         /\ calls' = r.trace
         /\ raised' = Raised(r.trace)
         /\ constructed' = ~Failed(r.trace)
         /\ container_id' = IF Failed(r.trace) THEN None ELSE r.trace[2].ret
    /\ pid' = None
    /\ ports' = EmptyDict
    /\ op' = [name |-> "__init__", args |-> <<>>]
    /\ ret' = None
    /\ mon' = <<>>

\* The framework records the name notify_add_biport returned under the
\* port's identifier; a label is recorded once and never removed.
RecordPort ==
    /\ constructed
    /\ op.name = "notify_add_biport"
    /\ op.args[1].identifier \notin DOMAIN ports
    /\ ports' = (op.args[1].identifier :> ret[1]) @@ ports
    /\ op' = [name |-> "record_port", args |-> <<>>]
    /\ calls' = <<>>
    /\ raised' = "none"
    /\ ret' = None
    /\ mon' = <<>>
    /\ UNCHANGED <<constructed, container_id, pid, runtime>>

\* DockerNode.notify_add_biport(node, biport).  The framework calls it once
\* for each port it declares, and port identifiers are unique.
NotifyAddBiport ==
    /\ constructed
    /\ \E biport \in Biports :
         /\ biport.identifier \notin DOMAIN ports
         /\ op' = [name |-> "notify_add_biport", args |-> <<biport>>]
         /\ ret' = <<BiportName(biport)>>
    /\ calls' = <<>>
    /\ raised' = "none"
    /\ mon' = <<>>
    /\ UNCHANGED <<constructed, container_id, pid, ports, runtime>>

\* start that clears _pid when it fails.
StartPidResetOnError(trace, old) == IF Failed(trace) THEN None ELSE trace[2].ret

\* self._pid = inspect_container(...)['State']['Pid'], reached only when both
\* calls returned.
StartPid(trace, old) == IF Failed(trace) THEN old ELSE trace[2].ret

\* start() with a guard on the node's own state: a second start is ignored.
StartOnlyOnce ==
    /\ constructed
    /\ IF pid = None
       THEN \E reportedPid \in Pids, failAt \in 0..2 :
              LET r == Run(StartPlan(container_id, reportedPid), runtime, failAt) IN
              /\ runtime' = r.rt
              /\ calls' = r.trace
              /\ raised' = Raised(r.trace)
              /\ pid' = StartPid(r.trace, pid)
       ELSE /\ calls' = <<>>
            /\ raised' = "none"
            /\ UNCHANGED <<runtime, pid>>
    /\ op' = [name |-> "start", args |-> <<>>]
    /\ ret' = None
    /\ mon' = <<>>
    /\ UNCHANGED <<constructed, container_id, ports>>

\* DockerNode.start().
Start ==
    /\ constructed
    /\ \E reportedPid \in Pids, failAt \in 0..2 :
         LET r == Run(StartPlan(container_id, reportedPid), runtime, failAt) IN
         /\ runtime' = r.rt
         /\ calls' = r.trace
         /\ raised' = Raised(r.trace)
         /\ pid' = StartPid(r.trace, pid)
    /\ op' = [name |-> "start", args |-> <<>>]
    /\ ret' = None
    /\ mon' = <<>>
    /\ UNCHANGED <<constructed, container_id, ports>>

\* DockerNode.stop().
Stop ==
    /\ constructed
    /\ \E failAt \in 0..3 :
         LET r == Run(StopPlan(container_id), runtime, failAt) IN
         /\ runtime' = r.rt
         /\ calls' = r.trace
         /\ raised' = Raised(r.trace)
    /\ op' = [name |-> "stop", args |-> <<>>]
    /\ ret' = None
    /\ mon' = <<>>
    /\ UNCHANGED <<constructed, container_id, pid, ports>>

\* DockerNode.pause().
Pause ==
    /\ constructed
    /\ \E failAt \in 0..(Cardinality(DOMAIN ports) + 1) :
         LET r == Run(PausePlan(container_id, ports), runtime, failAt) IN
         /\ runtime' = r.rt
         /\ calls' = r.trace
         /\ raised' = Raised(r.trace)
         /\ mon' = IF ~Failed(r.trace) /\ mon # <<>> /\ mon[1] = "downed"
                   THEN <<"paused", mon[2]>> ELSE <<>>
    /\ op' = [name |-> "pause", args |-> <<>>]
    /\ ret' = None
    /\ UNCHANGED <<constructed, container_id, pid, ports>>

\* DockerNode.unpause().
Unpause ==
    /\ constructed
    /\ \E failAt \in 0..(Cardinality(DOMAIN ports) + 1) :
         LET r == Run(UnpausePlan(container_id, ports), runtime, failAt) IN
         /\ runtime' = r.rt
         /\ calls' = r.trace
         /\ raised' = Raised(r.trace)
         /\ mon' = IF ~Failed(r.trace) /\ mon # <<>> /\ mon[1] = "paused"
                   THEN <<"unpaused", mon[2]>> ELSE <<>>
    /\ op' = [name |-> "unpause", args |-> <<>>]
    /\ ret' = None
    /\ UNCHANGED <<constructed, container_id, pid, ports>>

\* DockerNode.port_state(portlbl, state).  self.ports[portlbl] raises
\* KeyError for a label that is not in ports, before any command is built.
PortState ==
    /\ constructed
    /\ \E portlbl \in Names, state \in BOOLEAN :
         /\ op' = [name |-> "port_state", args |-> <<portlbl, state>>]
         /\ IF portlbl \notin DOMAIN ports
            THEN /\ calls' = <<>>
                 /\ raised' = "KeyError"
                 /\ mon' = <<>>
                 /\ UNCHANGED runtime
            ELSE \E failAt \in 0..1 :
                   LET r == Run(PortStatePlan(ports, portlbl, state), runtime, failAt) IN
                   /\ runtime' = r.rt
                   /\ calls' = r.trace
                   /\ raised' = Raised(r.trace)
                   /\ mon' = IF ~Failed(r.trace) /\ ~state
                             THEN <<"downed", portlbl>> ELSE <<>>
    /\ ret' = None
    /\ UNCHANGED <<constructed, container_id, pid, ports>>

Next ==
    \/ Construct
    \/ NotifyAddBiport
    \/ RecordPort
    \/ Start
    \/ Stop
    \/ Pause
    \/ Unpause
    \/ PortState

Spec == Init /\ [][Next]_vars
----
\* What the properties below read off the record of the last method call.

NPorts == Cardinality(DOMAIN ports)

\* The i-th call went to the runtime as request fn for this node's container.
IsRequest(trace, i, fn, cid) == trace[i].fn = fn /\ trace[i].arg = cid /\ cid # None

\* The i-th call was the shell command setting some interface to word.
IsLinkCmd(trace, i, word) ==
    /\ trace[i].fn = "shell"
    /\ Len(trace[i].arg) = 3
    /\ trace[i].arg[1] = "ip link set dev"
    /\ trace[i].arg[2] \in Names
    /\ trace[i].arg[3] = word

\* How many of the calls at positions idx command interface iface, and how
\* many labels of ports map to it.
CmdsOn(trace, idx, iface) == Cardinality({i \in idx : trace[i].arg[2] = iface})
LabelsOn(iface) == Cardinality({l \in DOMAIN ports : ports[l] = iface})

\* Every call before the last one returned normally.
OnlyLastMayFail(trace) == \A i \in 1..(Len(trace) - 1) : trace[i].ok

\* C1: stop() issues stop, wait, remove_container on the node's container id,
\* in that order and each at most once; a call is issued only after the one
\* before it returned normally, so remove_container is never issued unless
\* wait succeeded, and nothing follows a failed stop.
C1_StopOrder ==
    op.name = "stop" =>
        /\ Len(calls) \in 1..3
        /\ \A i \in 1..Len(calls) :
              IsRequest(calls, i, <<"stop", "wait", "remove_container">>[i], container_id)
        /\ OnlyLastMayFail(calls)
        /\ raised = "none" <=> (Len(calls) = 3 /\ calls[3].ok)

\* stop() whose wait failed: remove_container was not issued.
C1_Witness ==
    /\ op.name = "stop"
    /\ Len(calls) = 2
    /\ calls[1].ok
    /\ ~calls[2].ok
    /\ runtime.state = "exited"

\* C2: in pause() the pause request, if issued at all, is the call after the
\* N 'down' commands, all of which returned normally; a successful pause()
\* made exactly N interface commands, all 'down', as many on each interface
\* as labels map to it, followed by the pause request.
C2_PauseDownsThenPause ==
    op.name = "pause" =>
        /\ \A i \in 1..Len(calls) :
              calls[i].fn = "pause" =>
                  /\ i = NPorts + 1
                  /\ IsRequest(calls, i, "pause", container_id)
                  /\ \A j \in 1..NPorts : IsLinkCmd(calls, j, "down") /\ calls[j].ok
        /\ raised = "none" =>
              /\ Len(calls) = NPorts + 1
              /\ calls[NPorts + 1].fn = "pause"
              /\ \A n \in Names : CmdsOn(calls, 1..NPorts, n) = LabelsOn(n)

\* A successful pause() of a node with two or more ports, called right after
\* port_state(l, False) had brought one of them down.
C2_Witness ==
    /\ op.name = "pause"
    /\ raised = "none"
    /\ NPorts >= 2
    /\ mon # <<>>
    /\ mon[1] = "paused"
    /\ \E i \in 1..NPorts : calls[i].arg[2] = ports[mon[2]]

\* C3: unpause() issues the unpause request first; every 'up' command comes
\* after that request returned normally; a successful unpause() made exactly
\* N interface commands, all 'up', as many on each interface as labels map
\* to it.
C3_UnpauseThenUps ==
    op.name = "unpause" =>
        /\ calls # <<>>
        /\ IsRequest(calls, 1, "unpause", container_id)
        /\ \A i \in 2..Len(calls) : IsLinkCmd(calls, i, "up") /\ calls[1].ok
        /\ raised = "none" =>
              /\ Len(calls) = NPorts + 1
              /\ \A n \in Names : CmdsOn(calls, 2..(NPorts + 1), n) = LabelsOn(n)

\* A successful unpause() of a paused node with two or more ports.
C3_Witness ==
    /\ op.name = "unpause"
    /\ raised = "none"
    /\ NPorts >= 2
    /\ Len(calls) = NPorts + 1
    /\ runtime.state = "running"

\* C4: port_state(label, state) for a label in ports executes exactly one
\* shell command, on the interface ports records for the label, 'up' for
\* True and 'down' for False, and changes the state of no other interface;
\* for a label not in ports it raises the lookup error and executes nothing.
C4_PortState ==
    [][op'.name = "port_state" =>
          LET portlbl == op'.args[1]
              state == op'.args[2]
          IN  IF portlbl \in DOMAIN ports'
              THEN /\ Len(calls') = 1
                   /\ calls'[1].fn = "shell"
                   /\ calls'[1].arg =
                          <<"ip link set dev", ports'[portlbl], IF state THEN "up" ELSE "down">>
                   /\ raised' = IF calls'[1].ok THEN "none" ELSE "runtime"
                   /\ calls'[1].ok => runtime'.linkUp[ports'[portlbl]] = state
                   /\ \A n \in Names \ {ports'[portlbl]} :
                          runtime'.linkUp[n] = runtime.linkUp[n]
                   /\ runtime'.state = runtime.state
              ELSE /\ calls' = <<>>
                   /\ raised' = "KeyError"
                   /\ runtime' = runtime
    ]_vars

\* port_state(l, False) on a label recorded under another name than its own,
\* while another interface is up.
C4_Witness ==
    /\ op.name = "port_state"
    /\ op.args[1] \in DOMAIN ports
    /\ ports[op.args[1]] # op.args[1]
    /\ ~op.args[2]
    /\ calls[1].ok
    /\ \E n \in Names : runtime.linkUp[n]

\* C5: construction issues create_host_config and create_container and
\* nothing else; when it succeeds container_id is the (non-empty) id that
\* create_container returned, the runtime holds that container created and
\* not started, and _pid is unset; _pid changes only in a start() that
\* succeeds.
C5_Construction ==
    [][/\ op'.name = "__init__" =>
             /\ Len(calls') \in 1..2
             /\ \A i \in 1..Len(calls') :
                   calls'[i].fn = <<"create_host_config", "create_container">>[i]
             /\ raised' = "none" =>
                   /\ constructed'
                   /\ Len(calls') = 2
                   /\ container_id' # None
                   /\ container_id' = calls'[2].ret
                   /\ container_id'[1] \in Ids
                   /\ runtime'.id = container_id'
                   /\ runtime'.state = "created"
                   /\ pid' = None
             /\ raised' # "none" => ~constructed'
       /\ pid' # pid => op'.name = "start" /\ raised' = "none"
    ]_vars

\* A construction that succeeded.
C5_Witness ==
    /\ op.name = "__init__"
    /\ raised = "none"
    /\ constructed
    /\ runtime.state = "created"

\* C6: start() issues the start request first and the inspect request
\* second; when it returns normally _pid is the process id the inspect
\* result reported; when the start request fails no inspect is issued and
\* _pid keeps its previous value.
C6_StartPid ==
    [][op'.name = "start" =>
          /\ Len(calls') \in 1..2
          /\ IsRequest(calls', 1, "start", container_id')
          /\ Len(calls') = 2 => calls'[1].ok /\ IsRequest(calls', 2, "inspect_container", container_id')
          /\ raised' = "none" =>
                /\ Len(calls') = 2
                /\ calls'[2].ok
                /\ pid' = calls'[2].ret
                /\ pid'[1] \in Pids
          /\ ~calls'[1].ok => Len(calls') = 1 /\ pid' = pid
    ]_vars

\* A start() whose start request failed on a node that a previous start()
\* had given a process id.
C6_Witness ==
    /\ op.name = "start"
    /\ Len(calls) = 1
    /\ ~calls[1].ok
    /\ pid # None

\* C7: notify_add_biport returns the port's metadata label when the metadata
\* has one and the port's identifier otherwise; it changes no field of the
\* node, ports included, and issues no runtime or shell call.
C7_NotifyAddBiport ==
    [][op'.name = "notify_add_biport" =>
          LET biport == op'.args[1] IN
          /\ "label" \in DOMAIN biport.metadata => ret' = <<biport.metadata.label>>
          /\ "label" \notin DOMAIN biport.metadata => ret' = <<biport.identifier>>
          /\ calls' = <<>>
          /\ raised' = "none"
          /\ UNCHANGED <<constructed, container_id, pid, ports, runtime>>
    ]_vars

\* notify_add_biport on a port whose label differs from its identifier.
C7_Witness ==
    /\ op.name = "notify_add_biport"
    /\ "label" \in DOMAIN op.args[1].metadata
    /\ op.args[1].metadata.label # op.args[1].identifier
    /\ ret = <<op.args[1].metadata.label>>

\* C8: pause() and unpause() stop at their first failing call and raise its
\* error: every call before the last returned normally, no call is repeated,
\* and the method raises exactly when its last call failed.  A pause() that
\* fails leaves the container's run state as it was, the interfaces it had
\* processed down and the others untouched; an unpause() whose unpause
\* request fails changes nothing, and one whose 'up' command fails leaves
\* the interfaces it had not reached untouched.
C8_AbortAtFirstFailure ==
    [][op'.name \in {"pause", "unpause"} =>
          LET n == Cardinality(DOMAIN ports')
              done == 1..(Len(calls') - 1)
          IN
          /\ Len(calls') \in 1..(n + 1)
          /\ OnlyLastMayFail(calls')
          /\ raised' = IF calls'[Len(calls')].ok THEN "none" ELSE "runtime"
          /\ raised' = "none" => Len(calls') = n + 1
          /\ \A m \in Names :
                CmdsOn(calls', {i \in 1..Len(calls') : calls'[i].fn = "shell"}, m)
                    <= Cardinality({l \in DOMAIN ports' : ports'[l] = m})
          /\ (op'.name = "pause" /\ raised' = "runtime") =>
                /\ \A i \in 1..Len(calls') : calls'[i].fn = "pause" => i = Len(calls')
                /\ runtime'.state = runtime.state
                /\ \A i \in done : ~runtime'.linkUp[calls'[i].arg[2]]
                /\ \A m \in Names \ {calls'[i].arg[2] : i \in done} :
                      runtime'.linkUp[m] = runtime.linkUp[m]
          /\ (op'.name = "unpause" /\ raised' = "runtime") =>
                /\ ~calls'[1].ok => calls' = <<[fn |-> "unpause", arg |-> container_id,
                                                ok |-> FALSE, ret |-> None]>>
                                     /\ runtime' = runtime
                /\ \A m \in Names \ {calls'[i].arg[2] : i \in done \ {1}} :
                      runtime'.linkUp[m] = runtime.linkUp[m]
    ]_vars

\* A pause() of a running node with two ports whose second 'down' command
\* failed: the first interface is down and the container is still running.
C8_Witness ==
    /\ op.name = "pause"
    /\ raised = "runtime"
    /\ NPorts >= 2
    /\ Len(calls) = 2
    /\ calls[1].ok
    /\ ~calls[2].ok
    /\ ~runtime.linkUp[calls[1].arg[2]]
    /\ runtime.state = "running"

\* C9: start(), stop(), pause() and unpause() issue their first request
\* whatever the node and the container have been through, and the runtime's
\* refusal is what the method raises: nothing is ignored or rejected by the
\* node itself.
C9_NoLocalGuard ==
    op.name \in {"start", "stop", "pause", "unpause"} =>
        /\ calls # <<>>
        /\ op.name = "start" => IsRequest(calls, 1, "start", container_id)
        /\ op.name = "stop" => IsRequest(calls, 1, "stop", container_id)
        /\ op.name = "unpause" => IsRequest(calls, 1, "unpause", container_id)
        /\ op.name = "pause" =>
              IF NPorts = 0 THEN IsRequest(calls, 1, "pause", container_id) ELSE IsLinkCmd(calls, 1, "down")
        /\ raised = "runtime" <=> ~calls[Len(calls)].ok
        /\ raised \in {"none", "runtime"}

\* start() on a node that is already started and running: the request went
\* to the runtime and its refusal was raised.
C9_Witness ==
    /\ op.name = "start"
    /\ pid # None
    /\ runtime.state = "running"
    /\ Len(calls) = 1
    /\ ~calls[1].ok
    /\ raised = "runtime"

\* C10: after a successful unpause() every interface recorded in ports is
\* up, also the interface of a label that port_state(label, False) had
\* brought down before the pause().
C10_UnpauseUpsAll ==
    (op.name = "unpause" /\ raised = "none") =>
        /\ \A l \in DOMAIN ports : runtime.linkUp[ports[l]]
        /\ (mon # <<>> /\ mon[1] = "unpaused") => runtime.linkUp[ports[mon[2]]]

\* port_state(l, False); pause(); unpause(), all successful.
C10_Witness ==
    /\ op.name = "unpause"
    /\ raised = "none"
    /\ mon # <<>>
    /\ mon[1] = "unpaused"
    /\ mon[2] \in DOMAIN ports
    /\ runtime.linkUp[ports[mon[2]]]
====
